---------------------------- MODULE Spec2Model ----------------------------
(***************************************************************************)
(* ADAS Level-1 Simulator (FOP_Mini_Prj_ADAS.c).                           *)
(*                                                                         *)
(* The program is a single window procedure (WndProc) that handles button  *)
(* clicks (WM_COMMAND), slider moves (WM_HSCROLL), the lane timer          *)
(* (WM_TIMER) and repaints (WM_PAINT -> DrawMID), plus detached beep       *)
(* threads started by TriggerBeepForPriority.  The state is the program's  *)
(* globals, the tick counter read by GetTickCount, the armed state of the  *)
(* IDT_LANE timer and the set of live beep threads.                        *)
(*                                                                         *)
(* GetTickCount is modelled as a monotonic counter that does not wrap      *)
(* during a session; its readings are drawn from the finite set Ticks.     *)
(***************************************************************************)
EXTENDS Integers, Sequences, FiniteSets

\* ---------------------------------------------------------------- constants

NumDoors == 4
Doors == 0 .. (NumDoors - 1)
Tyres == 0 .. 3

ID_SPEED == 101
ID_FRONT == 102
ID_BASETP == 104
ID_TP1 == 105
ID_HEADLIGHT == 201
ID_DAYNIGHT == 202
ID_HANDS == 203
ID_LEFT == 204
ID_RIGHT == 205
ID_OBST == 206
ID_LANE == 207
ID_DOOR_FL == 301
ID_DOOR_FR == 302
ID_DOOR_RL == 303
ID_DOOR_RR == 304
IDT_LANE == 1002

MAX_COLLISION_THRESHOLD == 50

\* time constants of the handlers, in milliseconds
DoorBlockMs == 2000
LaneMsgMs == 1000
BeepGapMs == 800

\* ------------------------------------------------------------------- bounds

\* GetTickCount reading when the window is created
StartTick == 1000
\* number of WM_COMMAND / WM_HSCROLL messages the user generates in a run
MaxInputs == 3
\* number of beep threads the system can keep alive at once
MaxThreads == 1

\* GetTickCount readings at which messages are handled (offsets chosen so
\* that readings 1, 799, 800, 999, 1000, 1999 and 2000 ms apart exist)
TickOffsets == {0, 1, 800, 1000, 2000}
Ticks == {StartTick + o : o \in TickOffsets}

\* slider positions the user moves the track bars to
SpeedPositions == {0, 30}
FrontPositions == {10, 50}
BasePositions == {36}
TyrePositions == {27}

VARIABLES
    speed, frontDist, basePressure, tp,
    headlights, nightMode, handsOn, leftInd, rightInd,
    doorObstacle, laneChangeReq,
    midWarnings,
    doorOpen,
    doorBlockWarnUntil, laneMsgUntil, lastBeepTime,
    tickCount,      \* value GetTickCount() returns
    laneTimer,      \* TRUE iff the IDT_LANE timer is set
    beepThreads,    \* priority -> number of live BeepThreadProc threads
    windowAlive,    \* FALSE after WM_DESTROY
    lastMsg,        \* the message WndProc handled last, and the call of
                    \* TriggerBeepForPriority made while handling it
    nInputs,        \* WM_COMMAND / WM_HSCROLL messages handled so far
    deniedAt,       \* GetTickCount reading of the last blocked door click, -1 if none
    requestedAt     \* GetTickCount reading of the last ID_LANE click, -1 if none

vehicleVars == <<speed, frontDist, basePressure, tp, headlights, nightMode,
                 handsOn, leftInd, rightInd, doorObstacle>>
vars == <<speed, frontDist, basePressure, tp, headlights, nightMode, handsOn,
          leftInd, rightInd, doorObstacle, laneChangeReq, midWarnings,
          doorOpen, doorBlockWarnUntil, laneMsgUntil, lastBeepTime, tickCount,
          laneTimer, beepThreads, windowAlive, lastMsg, nInputs, deniedAt,
          requestedAt>>


\* ------------------------------------------------------- stopping distance

\* Lengths are exact rationals over the denominator MetreUnits: with
\* v = speed_kmh * 1000 / 3600, v * 1.8 = speed_kmh / 2 and
\* v * v / (2 * 0.7 * 9.81) = speed_kmh^2 * 6250 / 1112454.
MetreUnits == 1112454
VEHICLE_LENGTH_M == 5

\* StoppingDistance_m: reaction distance + braking distance, in 1/MetreUnits m
StoppingDistance_m(speed_kmh) ==
    LET reaction_distance == speed_kmh * (MetreUnits \div 2)
        braking_distance == speed_kmh * speed_kmh * 6250
    IN  reaction_distance + braking_distance

\* ceil of a non-negative rational n / MetreUnits
Ceil(n) == (n + MetreUnits - 1) \div MetreUnits

\* mutant: the threshold is rounded up without the 0.5 m margin
AdaptiveThreshold_NoMargin(speed_kmh) ==
    LET stopping == StoppingDistance_m(speed_kmh)
        threshold_d == stopping + VEHICLE_LENGTH_M * MetreUnits
        adaptiveThreshold == Ceil(threshold_d)
    IN  IF adaptiveThreshold > MAX_COLLISION_THRESHOLD
        THEN MAX_COLLISION_THRESHOLD
        ELSE adaptiveThreshold

\* DrawMID's adaptiveThreshold: ceil(stopping + length + 0.5), capped
AdaptiveThreshold(speed_kmh) ==
    LET stopping == StoppingDistance_m(speed_kmh)
        threshold_d == stopping + VEHICLE_LENGTH_M * MetreUnits
        adaptiveThreshold == Ceil(threshold_d + (MetreUnits \div 2))
    IN  IF adaptiveThreshold > MAX_COLLISION_THRESHOLD
        THEN MAX_COLLISION_THRESHOLD
        ELSE adaptiveThreshold

\* ------------------------------------------------------ warning evaluation

\* One line of midWarnings: the message and the number printed in it (0 if none)
Warning(id, n) == [id |-> id, n |-> n]

W_HeadlightsOffNight == Warning("Headlights OFF (night)", 0)
W_HeadlightsOnDay == Warning("Headlights ON (day)", 0)
W_ForwardCollision(threshold) == Warning("Forward Collision Warning", threshold)
W_LowTyre == Warning("Low Tyre Pressure", 0)
W_HandsOff == Warning("Hands Off Steering", 0)
W_DoorMoving == Warning("Door Open While Moving", 0)
W_ExitObstacle == Warning("Exit Warning: Obstacle Detected - Close Door", 0)
W_DoorBlocked == Warning("Door opening blocked: obstacle or vehicle moving", 0)
W_LaneChange == Warning("Lane Change! Please Use indicator", 0)

\* AddWarning: append the line to the buffer
AddWarning(buf, w) == Append(buf, w)

\* "wchar_t midWarnings[512]": the buffer's size in wide characters
MidWarningsSize == 512

\* Wide characters the compiler makes of the warning sign that opens every
\* line: the source file stores it as three UTF-8 bytes without a byte order
\* mark, which is one character when read as UTF-8 and up to three when the
\* bytes are read in the build machine's own code page
WarningSignUnits == 1 .. 3

\* Characters "%d" prints for a threshold
Digits(n) == IF n < 10 THEN 1 ELSE IF n < 100 THEN 2 ELSE 3

\* Wide characters AddWarning appends for a line: the sign, a space, the
\* text, " (threshold %d m)" for the forward collision line, and "\n"
TextLen(w, sign) ==
    sign + 1 + Len(w.id)
        + (IF w.id = "Forward Collision Warning"
           THEN Len(" (threshold ") + Digits(w.n) + Len(" m)")
           ELSE 0)
        + 1

\* wcslen(midWarnings) for the lines in the buffer
RECURSIVE BufLen(_, _)
BufLen(buf, sign) ==
    IF buf = <<>> THEN 0 ELSE TextLen(Head(buf), sign) + BufLen(Tail(buf), sign)

\* "if (highestPriority < p) highestPriority = p"
Raise(hp, p) == IF hp < p THEN p ELSE hp

\* The evaluation state threaded through DrawMID: the buffer and highestPriority
Acc(w, hp) == [w |-> w, hp |-> hp]

HeadlightRule(a) ==
    IF nightMode /\ ~headlights
    THEN Acc(AddWarning(a.w, W_HeadlightsOffNight), Raise(a.hp, 2))
    ELSE IF ~nightMode /\ headlights
         THEN Acc(AddWarning(a.w, W_HeadlightsOnDay), Raise(a.hp, 1))
         ELSE a

\* mutant: the warning also fires when frontDist equals the threshold
CollisionRule_Inclusive(a) ==
    IF frontDist <= AdaptiveThreshold(speed)
    THEN Acc(AddWarning(a.w, W_ForwardCollision(AdaptiveThreshold(speed))), 3)
    ELSE a

CollisionRule(a) ==
    IF frontDist < AdaptiveThreshold(speed)
    THEN Acc(AddWarning(a.w, W_ForwardCollision(AdaptiveThreshold(speed))), 3)
    ELSE a

\* mutant: a tyre at exactly basePressure - 4 is reported too
RECURSIVE TyreRule_Inclusive(_, _)
TyreRule_Inclusive(a, i) ==
    IF i >= 4 THEN a
    ELSE TyreRule_Inclusive(IF tp[i] <= basePressure - 4
                            THEN Acc(AddWarning(a.w, W_LowTyre), Raise(a.hp, 2))
                            ELSE a,
                            i + 1)

RECURSIVE TyreRule(_, _)
TyreRule(a, i) ==
    IF i >= 4 THEN a
    ELSE TyreRule(IF tp[i] < basePressure - 4
                  THEN Acc(AddWarning(a.w, W_LowTyre), Raise(a.hp, 2))
                  ELSE a,
                  i + 1)

\* mutant: the hands-off rule assigns its priority instead of raising to it
HandsRule_Overwrites(a) ==
    IF ~handsOn
    THEN Acc(AddWarning(a.w, W_HandsOff), 2)
    ELSE a

HandsRule(a) ==
    IF ~handsOn
    THEN Acc(AddWarning(a.w, W_HandsOff), Raise(a.hp, 2))
    ELSE a

\* mutant: only the front doors count as open doors
anyDoorOpen_FrontOnly == \E i \in {0, 1} : doorOpen[i]

anyDoorOpen == \E i \in Doors : doorOpen[i]

DoorMovingRule(a) ==
    IF anyDoorOpen /\ speed > 0
    THEN Acc(AddWarning(a.w, W_DoorMoving), Raise(a.hp, 3))
    ELSE a

ExitObstacleRule(a) ==
    IF anyDoorOpen /\ doorObstacle
    THEN Acc(AddWarning(a.w, W_ExitObstacle), Raise(a.hp, 3))
    ELSE a

\* mutant: the notice is still shown at the instant it ends
DoorBlockedRule_Inclusive(a) ==
    IF doorBlockWarnUntil >= tickCount
    THEN Acc(AddWarning(a.w, W_DoorBlocked), Raise(a.hp, 2))
    ELSE a

DoorBlockedRule(a) ==
    IF doorBlockWarnUntil > tickCount
    THEN Acc(AddWarning(a.w, W_DoorBlocked), Raise(a.hp, 2))
    ELSE a

\* mutant: only the left indicator counts as an indication
LaneRule_LeftOnly(a) ==
    IF laneChangeReq /\ ~leftInd
    THEN Acc(AddWarning(a.w, W_LaneChange), Raise(a.hp, 1))
    ELSE a

LaneRule(a) ==
    IF laneChangeReq /\ ~(leftInd \/ rightInd)
    THEN Acc(AddWarning(a.w, W_LaneChange), Raise(a.hp, 1))
    ELSE a

\* DrawMID up to the call of TriggerBeepForPriority: the buffer is emptied,
\* then the rules run in their order
DrawMID ==
    LaneRule(DoorBlockedRule(ExitObstacleRule(DoorMovingRule(HandsRule(
        TyreRule(CollisionRule(HeadlightRule(Acc(<<>>, 0))), 0))))))

highestPriority == DrawMID.hp

\* ------------------------------------------------------------ beep threads

Priorities == 1 .. 3

\* mutant: the high-priority pattern pauses 200 ms between its beeps
BeepPattern_LongPauses(priority) ==
    IF priority >= 3
    THEN <<<<1200, 150>>, <<0, 200>>, <<1200, 150>>, <<0, 200>>, <<1200, 150>>>>
    ELSE IF priority = 2
         THEN <<<<900, 200>>, <<0, 150>>, <<900, 200>>>>
         ELSE IF priority = 1 THEN <<<<700, 200>>>> ELSE <<>>

\* BeepThreadProc's pattern for a priority: <<frequency or 0, milliseconds>>
\* for every Beep (frequency > 0) and Sleep (frequency 0), before MessageBeep
BeepPattern(priority) ==
    IF priority >= 3
    THEN <<<<1200, 150>>, <<0, 100>>, <<1200, 150>>, <<0, 100>>, <<1200, 150>>>>
    ELSE IF priority = 2
         THEN <<<<900, 200>>, <<0, 150>>, <<900, 200>>>>
         ELSE IF priority = 1 THEN <<<<700, 200>>>> ELSE <<>>

NoThreads == [p \in Priorities |-> 0]
LiveThreads == beepThreads[1] + beepThreads[2] + beepThreads[3]

\* CreateThread: a handle (TRUE) or NULL (FALSE); NULL when no thread can be added
CreateThreadResults == IF LiveThreads < MaxThreads THEN {TRUE, FALSE} ELSE {FALSE}

\* A call TriggerBeepForPriority(priority) at time now and what it did:
\* "none" (returned early), "started" (thread created) or "failed" (no thread)
Call(now, priority, thread) == [now |-> now, priority |-> priority, thread |-> thread]
NoCall == Call(0, 0, "none")

Msg(msg, wParam, beep) == [msg |-> msg, wParam |-> wParam, beep |-> beep]

\* mutant: a burst exactly 800 ms after the previous one is suppressed too
Debounced_Inclusive(now) == now - lastBeepTime <= BeepGapMs

\* "now - lastBeepTime < 800": the previous burst is too recent
Debounced(now) == now - lastBeepTime < BeepGapMs

\* TriggerBeepForPriority(priority), called while handling WM_PAINT
TriggerBeepForPriority(priority) ==
    LET now == tickCount IN
    IF priority <= 0
    THEN /\ lastMsg' = Msg("WM_PAINT", 0, Call(now, priority, "none"))
         /\ UNCHANGED <<lastBeepTime, beepThreads>>
    ELSE IF Debounced(now)
         THEN /\ lastMsg' = Msg("WM_PAINT", 0, Call(now, priority, "none"))
              /\ UNCHANGED <<lastBeepTime, beepThreads>>
         ELSE /\ lastBeepTime' = now
              /\ \E h \in CreateThreadResults :
                    IF h
                    THEN /\ beepThreads' = [beepThreads EXCEPT ![priority] = @ + 1]
                         /\ lastMsg' = Msg("WM_PAINT", 0, Call(now, priority, "started"))
                    ELSE /\ beepThreads' = beepThreads
                         /\ lastMsg' = Msg("WM_PAINT", 0, Call(now, priority, "failed"))

\* BeepThreadProc: a live thread plays its pattern and returns
BeepThreadProc(priority) ==
    /\ windowAlive
    /\ beepThreads[priority] > 0
    /\ beepThreads' = [beepThreads EXCEPT ![priority] = @ - 1]
    /\ UNCHANGED <<deniedAt, requestedAt,
                   speed, frontDist, basePressure, tp, headlights, nightMode,
                   handsOn, leftInd, rightInd, doorObstacle, laneChangeReq,
                   midWarnings, doorOpen, doorBlockWarnUntil, laneMsgUntil,
                   lastBeepTime, tickCount, laneTimer, windowAlive, lastMsg,
                   nInputs>>

\* ---------------------------------------------------------------- handlers

\* State after WM_CREATE: the globals' initialisers, no timer, no thread
Init ==
    /\ speed = 0
    /\ frontDist = 50
    /\ basePressure = 32
    /\ tp = [i \in Tyres |-> 32]
    /\ headlights = FALSE
    /\ nightMode = FALSE
    /\ handsOn = TRUE
    /\ leftInd = FALSE
    /\ rightInd = FALSE
    /\ doorObstacle = FALSE
    /\ laneChangeReq = FALSE
    /\ midWarnings = <<>>
    /\ doorOpen = [i \in Doors |-> FALSE]
    /\ doorBlockWarnUntil = 0
    /\ laneMsgUntil = 0
    /\ lastBeepTime = 0
    /\ tickCount = StartTick
    /\ laneTimer = FALSE
    /\ beepThreads = NoThreads
    /\ windowAlive = TRUE
    /\ lastMsg = Msg("WM_CREATE", 0, NoCall)
    /\ nInputs = 0
    /\ deniedAt = -1
    /\ requestedAt = -1

\* A WM_COMMAND or WM_HSCROLL message is dispatched
Input(msg, wParam) ==
    /\ windowAlive
    /\ nInputs < MaxInputs
    /\ nInputs' = nInputs + 1
    /\ lastMsg' = Msg(msg, wParam, NoCall)

Headlight ==
    /\ Input("WM_COMMAND", ID_HEADLIGHT)
    /\ headlights' = ~headlights
    /\ UNCHANGED <<deniedAt, requestedAt,
                   speed, frontDist, basePressure, tp, nightMode, handsOn,
                   leftInd, rightInd, doorObstacle, laneChangeReq, midWarnings,
                   doorOpen, doorBlockWarnUntil, laneMsgUntil, lastBeepTime,
                   tickCount, laneTimer, beepThreads, windowAlive>>

DayNight ==
    /\ Input("WM_COMMAND", ID_DAYNIGHT)
    /\ nightMode' = ~nightMode
    /\ UNCHANGED <<deniedAt, requestedAt,
                   speed, frontDist, basePressure, tp, headlights, handsOn,
                   leftInd, rightInd, doorObstacle, laneChangeReq, midWarnings,
                   doorOpen, doorBlockWarnUntil, laneMsgUntil, lastBeepTime,
                   tickCount, laneTimer, beepThreads, windowAlive>>

Hands ==
    /\ Input("WM_COMMAND", ID_HANDS)
    /\ handsOn' = ~handsOn
    /\ UNCHANGED <<deniedAt, requestedAt,
                   speed, frontDist, basePressure, tp, headlights, nightMode,
                   leftInd, rightInd, doorObstacle, laneChangeReq, midWarnings,
                   doorOpen, doorBlockWarnUntil, laneMsgUntil, lastBeepTime,
                   tickCount, laneTimer, beepThreads, windowAlive>>

\* mutant: turning the left indicator on leaves the right one as it is
Left_KeepsRight ==
    /\ Input("WM_COMMAND", ID_LEFT)
    /\ leftInd' = ~leftInd
    /\ rightInd' = rightInd
    /\ UNCHANGED <<deniedAt, requestedAt,
                   speed, frontDist, basePressure, tp, headlights, nightMode,
                   handsOn, doorObstacle, laneChangeReq, midWarnings,
                   doorOpen, doorBlockWarnUntil, laneMsgUntil, lastBeepTime,
                   tickCount, laneTimer, beepThreads, windowAlive>>

Left ==
    /\ Input("WM_COMMAND", ID_LEFT)
    /\ leftInd' = ~leftInd
    /\ rightInd' = IF leftInd' THEN FALSE ELSE rightInd
    /\ UNCHANGED <<deniedAt, requestedAt,
                   speed, frontDist, basePressure, tp, headlights, nightMode,
                   handsOn, doorObstacle, laneChangeReq, midWarnings,
                   doorOpen, doorBlockWarnUntil, laneMsgUntil, lastBeepTime,
                   tickCount, laneTimer, beepThreads, windowAlive>>

Right ==
    /\ Input("WM_COMMAND", ID_RIGHT)
    /\ rightInd' = ~rightInd
    /\ leftInd' = IF rightInd' THEN FALSE ELSE leftInd
    /\ UNCHANGED <<deniedAt, requestedAt,
                   speed, frontDist, basePressure, tp, headlights, nightMode,
                   handsOn, doorObstacle, laneChangeReq, midWarnings,
                   doorOpen, doorBlockWarnUntil, laneMsgUntil, lastBeepTime,
                   tickCount, laneTimer, beepThreads, windowAlive>>

\* mutant: clearing the obstacle also clears the blocked-attempt notice
Obst_ClearsNotice ==
    /\ Input("WM_COMMAND", ID_OBST)
    /\ doorObstacle' = ~doorObstacle
    /\ doorBlockWarnUntil' = IF doorObstacle THEN 0 ELSE doorBlockWarnUntil
    /\ UNCHANGED <<deniedAt, requestedAt,
                   speed, frontDist, basePressure, tp, headlights, nightMode,
                   handsOn, leftInd, rightInd, laneChangeReq, midWarnings,
                   doorOpen, laneMsgUntil, lastBeepTime,
                   tickCount, laneTimer, beepThreads, windowAlive>>

Obst ==
    /\ Input("WM_COMMAND", ID_OBST)
    /\ doorObstacle' = ~doorObstacle
    /\ UNCHANGED <<deniedAt, requestedAt,
                   speed, frontDist, basePressure, tp, headlights, nightMode,
                   handsOn, leftInd, rightInd, laneChangeReq, midWarnings,
                   doorOpen, doorBlockWarnUntil, laneMsgUntil, lastBeepTime,
                   tickCount, laneTimer, beepThreads, windowAlive>>

\* ID_LANE: laneMsgUntil = GetTickCount() + 1000, laneChangeReq = TRUE, SetTimer
Lane ==
    /\ Input("WM_COMMAND", ID_LANE)
    /\ laneMsgUntil' = tickCount + LaneMsgMs
    /\ laneChangeReq' = TRUE
    /\ laneTimer' = TRUE
    /\ requestedAt' = tickCount
    /\ UNCHANGED <<deniedAt,
                   speed, frontDist, basePressure, tp, headlights, nightMode,
                   handsOn, leftInd, rightInd, doorObstacle, midWarnings,
                   doorOpen, doorBlockWarnUntil, lastBeepTime,
                   tickCount, beepThreads, windowAlive>>

DoorButton(doorIndex) == ID_DOOR_FL + doorIndex

\* mutant: the interlock forgets the speed
DoorBlocked_IgnoresSpeed(doorIndex) ==
    LET tryingToOpen == ~doorOpen[doorIndex]
    IN  tryingToOpen /\ doorObstacle

\* mutant: the interlock is applied to closing as well
DoorBlocked_AlsoOnClose(doorIndex) == doorObstacle \/ speed > 0

\* the branch condition of the door handler: the click is a blocked open attempt
DoorBlocked(doorIndex) ==
    LET tryingToOpen == ~doorOpen[doorIndex]
    IN  tryingToOpen /\ (doorObstacle \/ speed > 0)

\* mutant: the notice is shown for 200 ms
BlockedUntil_Short(now) == now + 200

\* "GetTickCount() + 2000": when the blocked-attempt notice ends
BlockedUntil(now) == now + DoorBlockMs

\* ID_DOOR_FL .. ID_DOOR_RR
DoorClick(doorIndex) ==
    /\ Input("WM_COMMAND", DoorButton(doorIndex))
    /\ IF DoorBlocked(doorIndex)
       THEN /\ doorBlockWarnUntil' = BlockedUntil(tickCount)
            /\ doorOpen' = doorOpen
            /\ deniedAt' = tickCount
       ELSE /\ doorOpen' = [doorOpen EXCEPT ![doorIndex] = ~doorOpen[doorIndex]]
            /\ doorBlockWarnUntil' = doorBlockWarnUntil
            /\ deniedAt' = deniedAt
    /\ UNCHANGED <<requestedAt,
                   speed, frontDist, basePressure, tp, headlights, nightMode,
                   handsOn, leftInd, rightInd, doorObstacle, laneChangeReq,
                   midWarnings, laneMsgUntil, lastBeepTime,
                   tickCount, laneTimer, beepThreads, windowAlive>>

\* the track bars and the positions the user moves each to
Sliders == {ID_SPEED, ID_FRONT, ID_BASETP} \cup {ID_TP1 + i : i \in Tyres}
Positions(src) ==
    IF src = ID_SPEED THEN SpeedPositions
    ELSE IF src = ID_FRONT THEN FrontPositions
    ELSE IF src = ID_BASETP THEN BasePositions
    ELSE TyrePositions

\* mutant: moving the vehicle closes every door
HScroll_ClosesDoors(src, pos) ==
    /\ Input("WM_HSCROLL", src)
    /\ speed' = IF src = ID_SPEED THEN pos ELSE speed
    /\ frontDist' = IF src = ID_FRONT THEN pos ELSE frontDist
    /\ IF src = ID_BASETP
       THEN /\ basePressure' = pos
            /\ tp' = [i \in Tyres |-> pos]
       ELSE /\ basePressure' = basePressure
            /\ tp' = [i \in Tyres |-> IF src = ID_TP1 + i THEN pos ELSE tp[i]]
    /\ doorOpen' = IF speed' > 0 THEN [i \in Doors |-> FALSE] ELSE doorOpen
    /\ UNCHANGED <<deniedAt, requestedAt,
                   headlights, nightMode, handsOn, leftInd, rightInd,
                   doorObstacle, laneChangeReq, midWarnings,
                   doorBlockWarnUntil, laneMsgUntil, lastBeepTime,
                   tickCount, laneTimer, beepThreads, windowAlive>>

\* mutant: a move of the base track bar leaves the tyre pressures as they are
HScroll_BaseOnly(src, pos) ==
    /\ Input("WM_HSCROLL", src)
    /\ speed' = IF src = ID_SPEED THEN pos ELSE speed
    /\ frontDist' = IF src = ID_FRONT THEN pos ELSE frontDist
    /\ IF src = ID_BASETP
       THEN /\ basePressure' = pos
            /\ tp' = tp
       ELSE /\ basePressure' = basePressure
            /\ tp' = [i \in Tyres |-> IF src = ID_TP1 + i THEN pos ELSE tp[i]]
    /\ UNCHANGED <<deniedAt, requestedAt,
                   headlights, nightMode, handsOn, leftInd, rightInd,
                   doorObstacle, laneChangeReq, midWarnings, doorOpen,
                   doorBlockWarnUntil, laneMsgUntil, lastBeepTime,
                   tickCount, laneTimer, beepThreads, windowAlive>>

\* WM_HSCROLL after track bar src moved to pos; every other track bar still
\* holds the value last read from it
HScroll(src, pos) ==
    /\ Input("WM_HSCROLL", src)
    /\ speed' = IF src = ID_SPEED THEN pos ELSE speed
    /\ frontDist' = IF src = ID_FRONT THEN pos ELSE frontDist
    /\ IF src = ID_BASETP
       THEN /\ basePressure' = pos
            /\ tp' = [i \in Tyres |-> pos]
       ELSE /\ basePressure' = basePressure
            /\ tp' = [i \in Tyres |-> IF src = ID_TP1 + i THEN pos ELSE tp[i]]
    /\ UNCHANGED <<deniedAt, requestedAt,
                   headlights, nightMode, handsOn, leftInd, rightInd,
                   doorObstacle, laneChangeReq, midWarnings, doorOpen,
                   doorBlockWarnUntil, laneMsgUntil, lastBeepTime,
                   tickCount, laneTimer, beepThreads, windowAlive>>

\* mutant: the lane message expires only after laneMsgUntil has passed
LaneExpired_Strict == tickCount > laneMsgUntil

\* mutant: the lane message expires at once
LaneExpired_AtOnce == tickCount >= laneMsgUntil - LaneMsgMs

\* "GetTickCount() >= laneMsgUntil": the lane message has expired
LaneExpired == tickCount >= laneMsgUntil

\* mutant: the expiring tick forgets KillTimer
LaneTimer_KeepsTimer ==
    /\ windowAlive
    /\ laneTimer
    /\ lastMsg' = Msg("WM_TIMER", IDT_LANE, NoCall)
    /\ IF LaneExpired
       THEN /\ laneChangeReq' = FALSE
            /\ laneTimer' = laneTimer
       ELSE UNCHANGED <<laneChangeReq, laneTimer>>
    /\ UNCHANGED <<deniedAt, requestedAt,
                   speed, frontDist, basePressure, tp, headlights, nightMode,
                   handsOn, leftInd, rightInd, doorObstacle, midWarnings,
                   doorOpen, doorBlockWarnUntil, laneMsgUntil, lastBeepTime,
                   tickCount, beepThreads, windowAlive, nInputs>>

\* WM_TIMER with wParam = IDT_LANE, delivered while the timer is set
LaneTimer ==
    /\ windowAlive
    /\ laneTimer
    /\ lastMsg' = Msg("WM_TIMER", IDT_LANE, NoCall)
    /\ IF LaneExpired
       THEN /\ laneChangeReq' = FALSE
            /\ laneTimer' = FALSE
       ELSE UNCHANGED <<laneChangeReq, laneTimer>>
    /\ UNCHANGED <<deniedAt, requestedAt,
                   speed, frontDist, basePressure, tp, headlights, nightMode,
                   handsOn, leftInd, rightInd, doorObstacle, midWarnings,
                   doorOpen, doorBlockWarnUntil, laneMsgUntil, lastBeepTime,
                   tickCount, beepThreads, windowAlive, nInputs>>

\* mutant: the evaluation appends to the text of the previous one
Paint_Appends ==
    /\ windowAlive
    /\ midWarnings' = midWarnings \o DrawMID.w
    /\ IF highestPriority > 0
       THEN TriggerBeepForPriority(highestPriority)
       ELSE /\ lastMsg' = Msg("WM_PAINT", 0, NoCall)
            /\ UNCHANGED <<lastBeepTime, beepThreads>>
    /\ UNCHANGED <<deniedAt, requestedAt,
                   speed, frontDist, basePressure, tp, headlights, nightMode,
                   handsOn, leftInd, rightInd, doorObstacle, laneChangeReq,
                   doorOpen, doorBlockWarnUntil, laneMsgUntil,
                   tickCount, laneTimer, windowAlive, nInputs>>

\* mutant: the evaluation consumes the blocked-attempt notice
Paint_ClearsNotice ==
    /\ windowAlive
    /\ midWarnings' = DrawMID.w
    /\ IF highestPriority > 0
       THEN TriggerBeepForPriority(highestPriority)
       ELSE /\ lastMsg' = Msg("WM_PAINT", 0, NoCall)
            /\ UNCHANGED <<lastBeepTime, beepThreads>>
    /\ doorBlockWarnUntil' = 0
    /\ UNCHANGED <<deniedAt, requestedAt,
                   speed, frontDist, basePressure, tp, headlights, nightMode,
                   handsOn, leftInd, rightInd, doorObstacle, laneChangeReq,
                   doorOpen, laneMsgUntil,
                   tickCount, laneTimer, windowAlive, nInputs>>

\* WM_PAINT: DrawMID rebuilds midWarnings and triggers the beep
Paint ==
    /\ windowAlive
    /\ midWarnings' = DrawMID.w
    /\ IF highestPriority > 0
       THEN TriggerBeepForPriority(highestPriority)
       ELSE /\ lastMsg' = Msg("WM_PAINT", 0, NoCall)
            /\ UNCHANGED <<lastBeepTime, beepThreads>>
    /\ UNCHANGED <<deniedAt, requestedAt,
                   speed, frontDist, basePressure, tp, headlights, nightMode,
                   handsOn, leftInd, rightInd, doorObstacle, laneChangeReq,
                   doorOpen, doorBlockWarnUntil, laneMsgUntil,
                   tickCount, laneTimer, windowAlive, nInputs>>

\* WM_DESTROY: the timers are killed and the message loop ends
Destroy ==
    /\ windowAlive
    /\ windowAlive' = FALSE
    /\ laneTimer' = FALSE
    /\ lastMsg' = Msg("WM_DESTROY", 0, NoCall)
    /\ UNCHANGED <<deniedAt, requestedAt,
                   speed, frontDist, basePressure, tp, headlights, nightMode,
                   handsOn, leftInd, rightInd, doorObstacle, laneChangeReq,
                   midWarnings, doorOpen, doorBlockWarnUntil, laneMsgUntil,
                   lastBeepTime, tickCount, beepThreads, nInputs>>

\* Time passes: GetTickCount moves on to the next reading (several steps
\* pass over readings at which no message is handled)
Tick(t) ==
    /\ windowAlive
    /\ t > tickCount
    /\ \A u \in Ticks : u > tickCount => t <= u
    /\ tickCount' = t
    /\ UNCHANGED <<deniedAt, requestedAt,
                   speed, frontDist, basePressure, tp, headlights, nightMode,
                   handsOn, leftInd, rightInd, doorObstacle, laneChangeReq,
                   midWarnings, doorOpen, doorBlockWarnUntil, laneMsgUntil,
                   lastBeepTime, laneTimer, beepThreads, windowAlive, lastMsg,
                   nInputs>>

Next ==
    \/ Headlight
    \/ DayNight
    \/ Hands
    \/ Left
    \/ Right
    \/ Obst
    \/ Lane
    \/ \E doorIndex \in Doors : DoorClick(doorIndex)
    \/ \E src \in Sliders : \E pos \in Positions(src) : HScroll(src, pos)
    \/ LaneTimer
    \/ Paint
    \/ Destroy
    \/ \E priority \in Priorities : BeepThreadProc(priority)
    \/ \E t \in Ticks : Tick(t)

Spec == Init /\ [][Next]_vars

\* The message loop keeps delivering WM_TIMER while the timer is set, and
\* time keeps passing
FairSpec ==
    /\ Spec
    /\ WF_vars(LaneTimer)
    /\ WF_vars(\E t \in Ticks : Tick(t))


\* The scheduler runs every beep thread, and Beep, Sleep and MessageBeep
\* return, so a live thread eventually plays its pattern to the end
ThreadFairSpec ==
    /\ Spec
    /\ WF_vars(\E priority \in Priorities : BeepThreadProc(priority))

\* ------------------------------------------------- evaluation of any state

\* Ranges of the speed and front-distance track bars (TBM_SETRANGE)
SpeedRange == 0 .. 180
FrontRange == 0 .. 50

\* Tyre track bar positions around basePressure - 4 = 28 for the base 32
EvalPressures == {27, 28, 32}

\* Door states: all closed, one door open, all open
EvalDoors ==
    {[i \in Doors |-> FALSE], [i \in Doors |-> TRUE]}
        \cup {[i \in Doors |-> i = d] : d \in Doors}

\* The program's globals after the user has set the controls, with no beep
\* played yet and no message of this run handled; (a) sweeps both track bar
\* ranges with every other control untouched, (b) combines the switches,
\* tyres, doors, a lane request and a blocked door click made at StartTick.
EvalInit ==
    /\ \/ /\ speed \in SpeedRange
          /\ frontDist \in FrontRange
          /\ tp = [i \in Tyres |-> 32]
          /\ headlights = FALSE
          /\ nightMode = FALSE
          /\ handsOn = TRUE
          /\ leftInd = FALSE
          /\ rightInd = FALSE
          /\ doorObstacle = FALSE
          /\ laneChangeReq = FALSE
          /\ doorOpen = [i \in Doors |-> FALSE]
          /\ deniedAt = -1
          /\ tickCount = StartTick
       \/ /\ speed \in SpeedPositions
          /\ frontDist \in FrontPositions
          /\ tp \in [Tyres -> EvalPressures]
          /\ headlights \in BOOLEAN
          /\ nightMode \in BOOLEAN
          /\ handsOn \in BOOLEAN
          /\ leftInd \in BOOLEAN
          /\ rightInd \in BOOLEAN
          /\ ~(leftInd /\ rightInd)
          /\ doorObstacle \in BOOLEAN
          /\ laneChangeReq \in BOOLEAN
          /\ doorOpen \in EvalDoors
          /\ deniedAt \in {-1, StartTick}
          /\ tickCount \in {StartTick + 1000, StartTick + DoorBlockMs}
          /\ deniedAt < 0 => tickCount = StartTick + 1000
    /\ basePressure = 32
    /\ doorBlockWarnUntil = (IF deniedAt < 0 THEN 0 ELSE BlockedUntil(deniedAt))
    /\ requestedAt = (IF laneChangeReq THEN StartTick ELSE -1)
    /\ laneMsgUntil = (IF laneChangeReq THEN StartTick + LaneMsgMs ELSE 0)
    /\ laneTimer = laneChangeReq
    /\ midWarnings = <<>>
    /\ lastBeepTime = 0
    /\ beepThreads = NoThreads
    /\ windowAlive = TRUE
    /\ lastMsg = Msg("WM_CREATE", 0, NoCall)
    /\ nInputs = 0

\* The window is repainted
EvalNext == Paint

EvalSpec == EvalInit /\ [][EvalNext]_vars

\* ------------------------------------------------------------ observations

\* This step handles a WM_COMMAND message with the given control id
Clicked(id) ==
    /\ nInputs' = nInputs + 1
    /\ lastMsg'.msg = "WM_COMMAND"
    /\ lastMsg'.wParam = id

\* The last message handled was a click on the given control
LastClick(id) == lastMsg.msg = "WM_COMMAND" /\ lastMsg.wParam = id

HasWarning(buf, w) == \E k \in 1 .. Len(buf) : buf[k] = w

\* This step handles a WM_PAINT message
Painted ==
    /\ lastMsg'.msg = "WM_PAINT"
    /\ tickCount' = tickCount
    /\ nInputs' = nInputs
    /\ Paint

\* The priority DrawMID pairs with each line it adds (3 high, 2 medium, 1 low)
Severity(w) ==
    IF w.id \in {W_ForwardCollision(0).id, W_DoorMoving.id, W_ExitObstacle.id}
    THEN 3
    ELSE IF w.id \in {W_HeadlightsOffNight.id, W_LowTyre.id, W_HandsOff.id,
                      W_DoorBlocked.id}
         THEN 2
         ELSE 1

\* The evaluation made by the last WM_PAINT: its lines and its priority
Evaluated == lastMsg.msg = "WM_PAINT"
Report == midWarnings
OverallSeverity == lastMsg.beep.priority

\* Greatest severity among the lines of a report, 0 for an empty one
MaxSeverity(buf) ==
    IF buf = <<>> THEN 0
    ELSE CHOOSE s \in {Severity(buf[k]) : k \in 1 .. Len(buf)} :
            \A k \in 1 .. Len(buf) : Severity(buf[k]) <= s

\* ------------------------------------------------------------------ claims

\* C1: a door-button click on a Closed door is denied (the door stays Closed)
\* if door_obstacle is true or speed_kmh > 0, and otherwise makes the door
\* Open; no step takes a door from Closed to Open while the vehicle is moving
\* or a door obstacle is set.
C1_OpenOnlyWhenSafe ==
    [][\A i \in Doors :
          /\ (Clicked(301 + i) /\ ~doorOpen[i])
                => (doorOpen'[i] <=> ~(doorObstacle \/ speed > 0))
          /\ (~doorOpen[i] /\ doorOpen'[i]) => (~doorObstacle /\ speed = 0)
      ]_vars

\* C1 witness: the last message was a click on a Closed door while the vehicle
\* was moving (no obstacle), and the door is still Closed
C1_Witness ==
    \E i \in Doors :
        /\ LastClick(301 + i)
        /\ speed > 0 /\ ~doorObstacle
        /\ ~doorOpen[i]
        /\ deniedAt = tickCount

\* C2: a denied door-open attempt at time now sets blocked_until to exactly
\* now + 2000 and changes nothing else: the doors, the vehicle state, the
\* lane-change state and the beep state are as before.
C2_DenialOnlySetsNotice ==
    [][\A i \in Doors :
          (Clicked(301 + i) /\ ~doorOpen[i] /\ (doorObstacle \/ speed > 0))
             => /\ doorBlockWarnUntil' = tickCount + 2000
                /\ doorOpen' = doorOpen
                /\ vehicleVars' = vehicleVars
                /\ laneChangeReq' = laneChangeReq
                /\ laneMsgUntil' = laneMsgUntil
                /\ lastBeepTime' = lastBeepTime
      ]_vars

\* C2 witness: a click was just denied by the obstacle while a lane change is
\* active and another door is Open
C2_Witness ==
    \E i, j \in Doors :
        /\ LastClick(301 + i)
        /\ ~doorOpen[i] /\ doorOpen[j]
        /\ doorObstacle
        /\ doorBlockWarnUntil = tickCount + 2000

\* C3: a door-button click on an Open door always closes it, whatever
\* speed_kmh and door_obstacle are, never changes blocked_until, and no click
\* changes a door other than its own.
C3_CloseAlwaysSucceeds ==
    [][\A i \in Doors :
          /\ (Clicked(301 + i) /\ doorOpen[i])
                => /\ ~doorOpen'[i]
                   /\ doorBlockWarnUntil' = doorBlockWarnUntil
          /\ Clicked(301 + i)
                => \A j \in Doors \ {i} : doorOpen'[j] = doorOpen[j]
      ]_vars

\* C3 witness: the last message was a click that closed a door while the
\* vehicle was moving (a click on a Closed door would have been denied)
C3_Witness ==
    \E i \in Doors :
        /\ LastClick(301 + i)
        /\ ~doorOpen[i]
        /\ speed > 0
        /\ deniedAt = -1

\* C4: blocked_until changes only in a denied door-open attempt; every other
\* event leaves it unchanged, so an active notice is never cleared early.
C4_NoticeOnlySetByDenial ==
    [][doorBlockWarnUntil' # doorBlockWarnUntil
          => /\ \E i \in Doors :
                   Clicked(301 + i) /\ ~doorOpen[i] /\ (doorObstacle \/ speed > 0)
             /\ doorBlockWarnUntil' > doorBlockWarnUntil
      ]_vars

\* C4 witness: the obstacle was cleared after a denial and the notice is
\* still running
C4_Witness ==
    /\ LastClick(206)
    /\ ~doorObstacle
    /\ deniedAt >= 0
    /\ doorBlockWarnUntil = deniedAt + 2000
    /\ tickCount > deniedAt
    /\ tickCount < doorBlockWarnUntil

\* C5: an attempt at time t to open a Closed door while door_obstacle is true
\* leaves the door Closed and the notice active; with no later denied attempt,
\* an evaluation contains the door-blocked entry (Medium) iff now < t + 2000,
\* and before any denied attempt it never does.
C5_NoticeExpires ==
    [][/\ \A i \in Doors :
             (Clicked(301 + i) /\ ~doorOpen[i] /\ doorObstacle)
                => /\ ~doorOpen'[i]
                   /\ deniedAt' = tickCount
                   /\ HasWarning(DrawMID.w, W_DoorBlocked)'
       /\ Painted
             => /\ HasWarning(midWarnings', W_DoorBlocked)
                   <=> (deniedAt >= 0 /\ tickCount < deniedAt + 2000)
                /\ HasWarning(midWarnings', W_DoorBlocked)
                      => lastMsg'.beep.priority >= 2
      ]_vars

\* C5 witness: an evaluation 2000 ms or more after a denial by the obstacle
\* produced no door-blocked entry
C5_Witness ==
    /\ lastMsg.msg = "WM_PAINT"
    /\ deniedAt >= 0
    /\ tickCount = deniedAt + 2000
    /\ doorObstacle
    /\ \A i \in Doors : ~doorOpen[i]
    /\ ~HasWarning(midWarnings, W_DoorBlocked)

\* This step is a WM_PAINT whose DrawMID called TriggerBeepForPriority(3)
\* right after a WM_PAINT whose DrawMID did so less than 800 ms earlier
TwoHighCalls ==
    /\ lastMsg.msg = "WM_PAINT"
    /\ lastMsg.beep.priority = 3
    /\ lastMsg'.beep.priority = 3
    /\ lastMsg'.beep.now - lastMsg.beep.now < 800
    /\ Painted

\* the call recorded in a message requested a beep pattern
Requested(m) == m.beep.thread # "none"

\* a beep thread is created in this step
ThreadStarted == \E p \in Priorities : beepThreads'[p] = beepThreads[p] + 1

\* C6 as stated: of two consecutive calls with severity High less than 800 ms
\* apart, the first yields a pattern and the second yields none, whatever the
\* beep state at the first call.
C6_FirstAlwaysBeeps ==
    [][TwoHighCalls => (Requested(lastMsg) /\ ~Requested(lastMsg'))]_vars

\* C6 amended: no two beep dispatches are closer than 800 ms; of two
\* consecutive calls with severity High less than 800 ms apart the second
\* requests no pattern whenever the first requested one; a call with a severity
\* above None requests a pattern exactly when at least 800 ms have passed since
\* last_trigger_at.
C6_Debounce ==
    [][/\ TwoHighCalls => ~(Requested(lastMsg) /\ Requested(lastMsg'))
       /\ (Painted /\ highestPriority > 0)
             => (Requested(lastMsg') <=> tickCount - lastBeepTime >= 800)
       /\ ThreadStarted
             => (tickCount - lastBeepTime >= 800 /\ lastBeepTime' = tickCount)
       /\ lastBeepTime' # lastBeepTime => lastBeepTime' - lastBeepTime >= 800
      ]_vars

\* C6 witness: a call with severity High was suppressed 1 ms after the call
\* that requested the last pattern, whose thread is still playing
C6_Witness ==
    /\ lastMsg.msg = "WM_PAINT"
    /\ lastMsg.beep.priority = 3
    /\ ~Requested(lastMsg)
    /\ LiveThreads > 0
    /\ lastBeepTime > 0
    /\ lastMsg.beep.now = lastBeepTime + 1

\* C7: no beep is requested when overall_severity is None; a requested
\* pattern's priority is the overall severity of the same evaluation;
\* last_trigger_at changes only in a step in which a beep is actually
\* dispatched to a worker, and is set to that step's now.
C7_TriggerOnlyOnDispatch ==
    [][/\ Painted
             => /\ highestPriority = 0 => (~Requested(lastMsg') /\ ~ThreadStarted)
                /\ Requested(lastMsg')
                      => /\ lastMsg'.beep.priority = highestPriority
                         /\ highestPriority \in 1 .. 3
       /\ lastBeepTime' # lastBeepTime
             => (ThreadStarted /\ lastBeepTime' = tickCount)
      ]_vars

\* C8: a lane-change request at t0 sets active and expires_at = t0 + 1000
\* (also while active); a tick at now < expires_at leaves active true, a tick
\* at now >= expires_at sets it false; a tick never changes expires_at.
C8_LaneExpiry ==
    [][/\ Clicked(207)
             => (laneChangeReq' /\ laneMsgUntil' = tickCount + 1000)
       /\ LaneTimer
             => /\ laneMsgUntil' = laneMsgUntil
                /\ laneChangeReq'
                      <=> (laneChangeReq /\ tickCount < requestedAt + 1000)
      ]_vars

\* C8 witness: the tick exactly 1000 ms after the request cleared it
C8_Witness ==
    /\ lastMsg.msg = "WM_TIMER"
    /\ requestedAt >= 0
    /\ tickCount = requestedAt + 1000
    /\ ~laneChangeReq

\* C9: while the window is alive the IDT_LANE timer is set exactly when the
\* lane-change request is active, so no tick is delivered while it is inactive.
C9_TimerIffActive ==
    /\ windowAlive => (laneTimer <=> laneChangeReq)
    /\ (ENABLED LaneTimer) => laneChangeReq

\* C9 witness: the tick that cleared the request also stopped the timer
C9_Witness ==
    /\ windowAlive
    /\ lastMsg.msg = "WM_TIMER"
    /\ requestedAt >= 0
    /\ ~laneChangeReq
    /\ ~laneTimer

\* the clock's readings end before the lane message expires
ClockEnds == \A t \in Ticks : t < laneMsgUntil

\* C10: if the clock advances, ticks are delivered fairly and no further
\* request arrives, an active request eventually becomes inactive; it is
\* cleared by the first tick at now >= expires_at and by nothing earlier.
C10_EventuallyCleared ==
    /\ laneChangeReq ~> (~laneChangeReq \/ ~windowAlive \/ ClockEnds)
    /\ [][/\ (laneChangeReq /\ ~laneChangeReq')
                => (LaneTimer /\ tickCount >= requestedAt + 1000)
          /\ (LaneTimer /\ tickCount >= requestedAt + 1000) => ~laneChangeReq'
         ]_vars

\* C10 witness: a request was cleared by a tick later than its expiry
C10_Witness ==
    /\ lastMsg.msg = "WM_TIMER"
    /\ requestedAt >= 0
    /\ tickCount > requestedAt + 1000
    /\ ~laneChangeReq
    /\ windowAlive

\* C11: left_indicator and right_indicator are never both true; a click that
\* turns one indicator on turns the other off, a click that turns one off
\* leaves the other unchanged, and no other step changes either.
C11_IndicatorsExclusive ==
    /\ [](~(leftInd /\ rightInd))
    /\ [][/\ Clicked(204)
                => /\ leftInd' = ~leftInd
                   /\ rightInd' = (IF leftInd THEN rightInd ELSE FALSE)
          /\ Clicked(205)
                => /\ rightInd' = ~rightInd
                   /\ leftInd' = (IF rightInd THEN leftInd ELSE FALSE)
          /\ (leftInd' # leftInd \/ rightInd' # rightInd)
                => (Clicked(204) \/ Clicked(205))
         ]_vars

\* C11 witness: after earlier inputs, a click on the right indicator has
\* turned it on and the left indicator is off
C11_Witness ==
    /\ LastClick(205)
    /\ rightInd
    /\ ~leftInd
    /\ nInputs >= 2

\* C12: the overall severity of an evaluation is the maximum severity of the
\* entries it produced and 0 exactly when it produced none; an evaluation
\* with a High entry has overall severity 3 whatever else fired.
C12_OverallIsMax ==
    Evaluated
        => /\ OverallSeverity = MaxSeverity(Report)
           /\ OverallSeverity = 0 <=> Report = <<>>
           /\ (\E k \in 1 .. Len(Report) : Severity(Report[k]) = 3)
                 => OverallSeverity = 3

\* C12 witness: a forward collision entry (High) with a Low entry before it
\* and a Medium and a Low entry after it
C12_Witness ==
    /\ Evaluated
    /\ OverallSeverity = 3
    /\ Len(Report) = 4
    /\ Report[1] = W_HeadlightsOnDay
    /\ Report[2].id = W_ForwardCollision(0).id
    /\ Report[3] = W_HandsOff
    /\ Report[4] = W_LaneChange

\* the report has a Forward Collision line
HasCollision(buf) ==
    \E k \in 1 .. Len(buf) : buf[k].id = W_ForwardCollision(0).id

\* C13: an evaluation has the Forward Collision entry iff front_distance_m <
\* adaptive_collision_threshold_m(speed_kmh), and the entry carries that
\* threshold; at front distance 10 it is absent at speed 0 (threshold 6) and
\* present at speed 30; a front distance equal to the threshold does not fire.
C13_CollisionIffBelow ==
    Evaluated
        => /\ HasCollision(Report) <=> frontDist < AdaptiveThreshold(speed)
           /\ HasCollision(Report)
                 => HasWarning(Report, W_ForwardCollision(AdaptiveThreshold(speed)))
           /\ (frontDist = 10 /\ speed = 0)
                 => (~HasCollision(Report) /\ AdaptiveThreshold(speed) = 6)
           /\ (frontDist = 10 /\ speed = 30) => HasCollision(Report)
           /\ frontDist = AdaptiveThreshold(speed) => ~HasCollision(Report)

\* C13 witness: at speed 0 a front distance of 6, equal to the threshold,
\* gave no entry
C13_Witness ==
    /\ Evaluated
    /\ speed = 0
    /\ frontDist = 6
    /\ Report = <<>>

\* C14: for every speed of the slider range the threshold is
\* min(50, ceil(stopping + 5.0 + 0.5)), with stopping = 1.8 v + v^2 / (2 * 0.7
\* * 9.81) and v = speed / 3.6, written over the denominator 1112454; it never
\* exceeds 50, no lower speed has a greater one, it is 6 at speed 0 and 50 at
\* speed 100, and it is the value an evaluation prints.
C14_ThresholdShape ==
    LET T == AdaptiveThreshold(speed)
        X == speed * 556227 + speed * speed * 6250 + 6118497
    IN  /\ T <= 50
        /\ T < 50 => ((T - 1) * 1112454 < X /\ X <= T * 1112454)
        /\ T = 50 => X > 49 * 1112454
        /\ \A s \in 0 .. speed : AdaptiveThreshold(s) <= T
        /\ speed = 0 => T = 6
        /\ speed = 100 => T = 50
        /\ (Evaluated /\ HasCollision(Report))
              => HasWarning(Report, W_ForwardCollision(T))

\* C14 witness: the evaluation at speed 100 printed the threshold 50
C14_Witness ==
    /\ Evaluated
    /\ speed = 100
    /\ frontDist = 49
    /\ Report = <<W_ForwardCollision(50)>>

\* number of lines of the report equal to w
Count(buf, w) == Cardinality({k \in 1 .. Len(buf) : buf[k] = w})

\* C15: the number of Low Tyre Pressure entries of an evaluation is the number
\* of tyres with tyre_pressure[i] < base_pressure - 4, each entry is Medium;
\* base 32 with tyres [32, 27, 32, 32] gives one entry and a tyre at 28 none.
C15_OneEntryPerLowTyre ==
    Evaluated
        => /\ Count(Report, W_LowTyre)
                 = Cardinality({i \in 0 .. 3 : tp[i] < basePressure - 4})
           /\ Count(Report, W_LowTyre) > 0
                 => (Severity(W_LowTyre) = 2 /\ OverallSeverity >= 2)
           /\ (basePressure = 32 /\ tp = [i \in 0 .. 3 |-> IF i = 1 THEN 27 ELSE 32])
                 => Count(Report, W_LowTyre) = 1
           /\ (basePressure = 32 /\ \A i \in 0 .. 3 : tp[i] >= 28)
                 => Count(Report, W_LowTyre) = 0

\* C15 witness: base 32 with tyres [28, 27, 32, 32] gave exactly one entry
C15_Witness ==
    /\ Evaluated
    /\ basePressure = 32
    /\ tp = [i \in 0 .. 3 |-> IF i = 0 THEN 28 ELSE IF i = 1 THEN 27 ELSE 32]
    /\ Count(Report, W_LowTyre) = 1

\* C16: an evaluation with any door Open and speed_kmh > 0 contains the High
\* door-open-while-moving entry, one with any door Open and door_obstacle
\* contains the High exit-obstacle entry, and with all four doors Closed
\* neither entry is produced.
C16_DoorWarnings ==
    Evaluated
        => /\ ((\E i \in 0 .. 3 : doorOpen[i]) /\ speed > 0)
                 => (HasWarning(Report, W_DoorMoving) /\ OverallSeverity = 3)
           /\ ((\E i \in 0 .. 3 : doorOpen[i]) /\ doorObstacle)
                 => (HasWarning(Report, W_ExitObstacle) /\ OverallSeverity = 3)
           /\ (\A i \in 0 .. 3 : ~doorOpen[i])
                 => /\ ~HasWarning(Report, W_DoorMoving)
                    /\ ~HasWarning(Report, W_ExitObstacle)

\* C16 witness: only the rear right door is open, the vehicle moves and the
\* obstacle is present; both entries were produced
C16_Witness ==
    /\ Evaluated
    /\ doorOpen = [i \in 0 .. 3 |-> i = 3]
    /\ speed > 0
    /\ doorObstacle
    /\ HasWarning(Report, W_DoorMoving)
    /\ HasWarning(Report, W_ExitObstacle)

\* C17: an evaluation has the lane-change-without-indicator entry (Low) iff
\* the lane-change request is active and neither indicator is set; with a
\* request and an indicator on, every entry is one of the other rules'.
C17_LaneEntryIffNoIndicator ==
    Evaluated
        => /\ HasWarning(Report, W_LaneChange)
                 <=> (laneChangeReq /\ ~leftInd /\ ~rightInd)
           /\ Count(Report, W_LaneChange) <= 1
           /\ Report = <<W_LaneChange>> => OverallSeverity = 1
           /\ (laneChangeReq /\ (leftInd \/ rightInd))
                 => \A k \in 1 .. Len(Report) :
                       \/ Report[k] \in {W_HeadlightsOffNight, W_HeadlightsOnDay,
                                         W_LowTyre, W_HandsOff, W_DoorMoving,
                                         W_ExitObstacle, W_DoorBlocked}
                       \/ Report[k] = W_ForwardCollision(AdaptiveThreshold(speed))

\* C17 witness: a lane change was requested with the right indicator on and
\* the evaluation produced nothing
C17_Witness ==
    /\ Evaluated
    /\ laneChangeReq
    /\ rightInd
    /\ ~leftInd
    /\ Report = <<>>

\* C18: an evaluation leaves every vehicle field, the door array, the notice
\* deadline and the lane-change state unchanged; an evaluation that follows
\* another with no message handled in between, and with the same
\* notice-active value, produces the same entries and the same overall
\* severity.
C18_EvaluationIsPure ==
    [][Painted
          => /\ vehicleVars' = vehicleVars
             /\ doorOpen' = doorOpen
             /\ doorBlockWarnUntil' = doorBlockWarnUntil
             /\ laneChangeReq' = laneChangeReq
             /\ laneMsgUntil' = laneMsgUntil
             /\ (/\ Evaluated
                 /\ HasWarning(Report, W_DoorBlocked)
                       <=> doorBlockWarnUntil > tickCount)
                   => /\ midWarnings' = midWarnings
                      /\ lastMsg'.beep.priority = lastMsg.beep.priority
      ]_vars

\* C18 witness: after the only input, the window was painted twice at the
\* same clock reading (the second call found the beep of the first too recent)
C18_Witness ==
    /\ Evaluated
    /\ nInputs = 1
    /\ Report # <<>>
    /\ lastMsg.beep.thread = "none"
    /\ lastMsg.beep.now = lastBeepTime

\* a beep thread returns in this step
ThreadReturned == \E p \in Priorities : beepThreads'[p] = beepThreads[p] - 1

\* C19: a beep thread is started with the priority of the evaluation that
\* dispatched it and the window procedure goes on without waiting for it; no
\* step of a beep thread changes the door, lane-change, beep or vehicle state;
\* every dispatched beep thread eventually returns, having played its pattern.
C19_FireAndForget ==
    /\ [][/\ ThreadStarted
                => /\ Painted
                   /\ beepThreads'[highestPriority]
                         = beepThreads[highestPriority] + 1
          /\ ThreadReturned
                => /\ vehicleVars' = vehicleVars
                   /\ doorOpen' = doorOpen
                   /\ doorBlockWarnUntil' = doorBlockWarnUntil
                   /\ laneChangeReq' = laneChangeReq
                   /\ laneMsgUntil' = laneMsgUntil
                   /\ lastBeepTime' = lastBeepTime
                   /\ midWarnings' = midWarnings
         ]_vars
    /\ [](windowAlive => ENABLED Paint)
    /\ (LiveThreads > 0) ~> (LiveThreads = 0)

\* This step handles a WM_HSCROLL message
Scrolled == nInputs' = nInputs + 1 /\ lastMsg'.msg = "WM_HSCROLL"

\* C20: the door array changes only in a door-button click step, and only at
\* the clicked door; a slider move (raising speed_kmh above 0) or an obstacle
\* toggle leaves every door as it is, also an Open one, and the evaluation
\* then reports a door Open at speed_kmh > 0.
C20_OnlyClicksMoveDoors ==
    [][/\ doorOpen' # doorOpen
             => \E i \in Doors :
                   /\ Clicked(301 + i)
                   /\ \A j \in Doors \ {i} : doorOpen'[j] = doorOpen[j]
       /\ Scrolled => doorOpen' = doorOpen
       /\ Clicked(206) => doorOpen' = doorOpen
       /\ (lastMsg'.msg = "WM_PAINT" /\ speed > 0 /\ \E i \in Doors : doorOpen[i])
             => HasWarning(midWarnings', W_DoorMoving)
      ]_vars

\* C20 witness: a door is Open at speed_kmh > 0 and the evaluation has
\* reported it
C20_Witness ==
    /\ Evaluated
    /\ speed > 0
    /\ \E i \in Doors : doorOpen[i]
    /\ HasWarning(Report, W_DoorMoving)
    /\ OverallSeverity = 3

\* milliseconds of tone and sleep in a pattern
RECURSIVE SumMs(_)
SumMs(pattern) ==
    IF pattern = <<>> THEN 0 ELSE Head(pattern)[2] + SumMs(Tail(pattern))

PatternMs(priority) == SumMs(BeepPattern(priority))

C22_BaseSyncsTyres ==
    [][/\ (Scrolled /\ lastMsg'.wParam = 104)
             => \A i \in 0 .. 3 : tp'[i] = basePressure'
       /\ (Scrolled /\ lastMsg'.wParam \in {101, 102})
             => (basePressure' = basePressure /\ tp' = tp)
       /\ \A i \in 0 .. 3 :
             (Scrolled /\ lastMsg'.wParam = 105 + i)
                => /\ basePressure' = basePressure
                   /\ \A j \in (0 .. 3) \ {i} : tp'[j] = tp[j]
       /\ (/\ lastMsg.msg = "WM_HSCROLL"
           /\ lastMsg.wParam = 104
           /\ lastMsg'.msg = "WM_PAINT")
             => ~HasWarning(midWarnings', W_LowTyre)
      ]_vars

\* C22 witness: a tyre was low at the last evaluation, then the base slider
\* was moved and all four tyres follow the new base pressure
C22_Witness ==
    /\ lastMsg.msg = "WM_HSCROLL"
    /\ lastMsg.wParam = 104
    /\ HasWarning(midWarnings, W_LowTyre)
    /\ basePressure # 32
    /\ \A i \in 0 .. 3 : tp[i] = basePressure
    /\ ~HasWarning(DrawMID.w, W_LowTyre)

\* C22 as first stated: a move of the base slider sets all four tyre
\* pressures to the new base pressure and the evaluation that follows has no
\* Low Tyre Pressure entry, and a move of any other slider alters neither
\* the base pressure nor any tyre pressure. A move of a tyre slider refutes
\* the last part: line 380 stores the slider's new position in that tyre.
C22_OtherSlidersAlterNothing ==
    [][/\ (Scrolled /\ lastMsg'.wParam = 104)
             => \A i \in 0 .. 3 : tp'[i] = basePressure'
       /\ (Scrolled /\ lastMsg'.wParam # 104)
             => (basePressure' = basePressure /\ tp' = tp)
       /\ (/\ lastMsg.msg = "WM_HSCROLL"
           /\ lastMsg.wParam = 104
           /\ lastMsg'.msg = "WM_PAINT")
             => ~HasWarning(midWarnings', W_LowTyre)
      ]_vars

\* C23: the warning text built in one evaluation fits the buffer of 512 wide
\* characters: its length with the terminator stays below 512, also when
\* every rule fires at once, and the buffer holds the lines of this
\* evaluation only, because every evaluation starts from the empty buffer.
C23_ReportFitsBuffer ==
    Evaluated
        => /\ \A sign \in WarningSignUnits : BufLen(Report, sign) + 1 < 512
           /\ MidWarningsSize = 512
           /\ Report = DrawMID.w

\* C23 witness: every rule fires at once (eleven lines, 330 characters with
\* a one-character sign) in an evaluation that follows an earlier one (its
\* beep is refused because the earlier evaluation dispatched one)
C23_Witness ==
    /\ Evaluated
    /\ lastMsg.beep.priority > 0
    /\ lastMsg.beep.thread = "none"
    /\ Len(Report) = 11
    /\ Count(Report, W_LowTyre) = 4
    /\ BufLen(Report, 1) = 330
    /\ BufLen(Report, 3) = 352

=============================================================================
